---- MODULE Spec2Model ----
(***************************************************************************)
(* A model of the two scripts of the repository:                           *)
(*   projects/01.me/me_with_tools.py      (the persona chatbot, Me.chat)   *)
(*   LangChain-Academy/module-1/studio/router.py   (the router graph)      *)
(* A behaviour runs one of the two scripts (variable script).              *)
(*                                                                         *)
(* Text is a sequence of tokens: a token is one character of a persona     *)
(* text or one literal piece of a Python string.  The hosted model, the    *)
(* push endpoint and the caller of chat are the environment: what they     *)
(* send is drawn from small sets.  Tool-call ids are numbered by the       *)
(* environment in the order of the requests (the API issues a fresh id     *)
(* for every call).                                                        *)
(***************************************************************************)
EXTENDS Integers, Sequences, FiniteSets, TLC

VARIABLES
    script,     \* "me" | "router": the script this behaviour runs
    persona,    \* Me.name, Me.summary, Me.bio (set by Me.__init__)
    pc,         \* position of the running script
    history,    \* the caller's history list handed to chat
    messages,   \* chat's local list `messages` / the graph state's messages
    response,   \* the last chat-completion response (None before the first)
    retval,     \* what chat returned (NoValue until it returns)
    posts,      \* every requests.post made by push, with its outcome
    sent,       \* every `messages` argument sent to the hosted model, in order
    dispatched, \* the record of every tool call handle_tool_call dispatched
    ncalls,     \* number of tool calls requested so far (the next id is ncalls+1)
    nmodel,     \* number of invocations of the hosted model
    ntools      \* number of runs of handle_tool_call / of the graph's tools node

vars == <<script, persona, pc, history, messages, response, retval, posts,
          sent, dispatched, ncalls, nmodel, ntools>>

(***************************************************************************)
(* Bounds of the model.                                                    *)
(***************************************************************************)
\* tool calls the hosted model requests in one run, over all its responses
MaxCalls == 2
\* total length of the three persona texts in the prompt specification
MaxPersonaLen == 3

(***************************************************************************)
(* Sequences.                                                              *)
(***************************************************************************)
IsPrefix(s, t) == Len(s) <= Len(t) /\ SubSeq(t, 1, Len(s)) = s

\* s occurs in t as a contiguous, unmodified run of tokens
IsSubstring(s, t) ==
    \E i \in 0..(Len(t) - Len(s)) : SubSeq(t, i + 1, i + Len(s)) = s

SeqsUpTo(S, n) == UNION {[1..k -> S] : k \in 0..n}

(***************************************************************************)
(* Python values that tools return, and json.dumps of them.                *)
(***************************************************************************)
PyNone == [kind |-> "none", items |-> <<>>]
PyDict(items) == [kind |-> "dict", items |-> items]
EmptyDict == PyDict(<<>>)
RecordedOk == PyDict(<<"\"recorded\": \"ok\"">>)

RECURSIVE JoinItems(_)
JoinItems(items) ==
    IF Len(items) = 0 THEN <<>>
    ELSE IF Len(items) = 1 THEN <<items[1]>>
    ELSE <<items[1], ", ">> \o JoinItems(Tail(items))

\* json.dumps(result) at line 123
JsonDumps(v) ==
    IF v.kind = "none" THEN <<"null">>
    ELSE <<"{">> \o JoinItems(v.items) \o <<"}">>

(***************************************************************************)
(* Messages.  Every message record has the same four fields; a field a     *)
(* role does not carry is empty (<<>>) or 0.                               *)
(***************************************************************************)
Msg(role, content) ==
    [role |-> role, content |-> content, tool_calls |-> <<>>, tool_call_id |-> 0]
AssistantMsg(content, tool_calls) ==
    [role |-> "assistant", content |-> content, tool_calls |-> tool_calls,
     tool_call_id |-> 0]
\* the dict built at line 123
ToolMsg(content, id) ==
    [role |-> "tool", content |-> content, tool_calls |-> <<>>, tool_call_id |-> id]

NoValue == <<"<no value>">>
NoResponse == [finish_reason |-> "none", message |-> AssistantMsg(<<>>, <<>>)]

(***************************************************************************)
(* The push endpoint.  requests.post returns a Response for every HTTP     *)
(* status (push never looks at it) and raises when no response arrives.    *)
(***************************************************************************)
PostOutcomes == {"delivered", "http_error", "exception"}

\* What a call of a module-level object did: whether it raised, the value it
\* returned, the posts it made, and the function that ran ("" if none).
Outcome(raised, result, made, fn) ==
    [raised |-> raised, result |-> result, posts |-> made, ran |-> fn]

\* push(message), lines 16-23
push(message, outcome) ==
    Outcome(outcome = "exception", PyNone,
            <<[message |-> message, outcome |-> outcome]>>, "push")

(***************************************************************************)
(* json.loads of the arguments text of a tool call (line 119).  The text   *)
(* of a JSON object is its sequence of "key": value pairs; the dict maps   *)
(* each key to the value of its last pair.                                 *)
(***************************************************************************)
JsonLoads(text) ==
    [k \in {text[i][1] : i \in DOMAIN text} |->
        LET last == CHOOSE i \in DOMAIN text :
                        /\ text[i][1] = k
                        /\ \A j \in DOMAIN text : text[j][1] = k => j <= i
        IN  text[last][2]]

\* Python's binding of **arguments to a signature: a TypeError unless every
\* keyword is a parameter and every parameter without a default is given.
Binds(arguments, required, optional) ==
    /\ required \subseteq DOMAIN arguments
    /\ DOMAIN arguments \subseteq (required \cup optional)

Arg(arguments, key, default) ==
    IF key \in DOMAIN arguments THEN arguments[key] ELSE default

TypeError == Outcome(TRUE, PyNone, <<>>, "")

\* record_user_details(email, name="Name not provided", notes="Not provided"),
\* lines 30-32
record_user_details(arguments, outcome) ==
    IF ~Binds(arguments, {"email"}, {"name", "notes"}) THEN TypeError
    ELSE LET p == push(<<"Recording interest from ",
                         Arg(arguments, "name", "Name not provided"),
                         " with email ", arguments["email"], " and notes: ",
                         Arg(arguments, "notes", "Not provided")>>, outcome)
         IN  Outcome(p.raised, RecordedOk, p.posts, "record_user_details")

\* record_unknown_question(question), lines 34-36
record_unknown_question(arguments, outcome) ==
    IF ~Binds(arguments, {"question"}, {}) THEN TypeError
    ELSE LET p == push(<<"Recording ", arguments["question"],
                         " asked that I couldn't answer">>, outcome)
         IN  Outcome(p.raised, RecordedOk, p.posts, "record_unknown_question")

(***************************************************************************)
(* The module's global names that the model covers: the three functions    *)
(* and the list `tools` (line 86), a true value that cannot be called.     *)
(***************************************************************************)
ModuleFunctions == {"record_user_details", "record_unknown_question", "push"}
ModuleGlobals == ModuleFunctions \cup {"tools"}
\* the names of the tool schema, lines 42-87
DeclaredTools == {"record_user_details", "record_unknown_question"}

\* globals().get(tool_name), line 121: the name of the object, "" for None
GlobalsGet(tool_name) ==
    IF tool_name \in ModuleGlobals THEN tool_name ELSE ""

\* tool(**arguments), line 122, for a module-level object that is not None
CallObject(tool, arguments, outcome) ==
    CASE tool = "record_user_details" -> record_user_details(arguments, outcome)
      [] tool = "record_unknown_question" ->
             record_unknown_question(arguments, outcome)
      [] tool = "push" ->
             IF Binds(arguments, {"message"}, {})
             THEN push(<<arguments["message"]>>, outcome)
             ELSE TypeError
      [] OTHER -> TypeError      \* 'list' object is not callable

\* result = tool(**arguments) if tool else {}, line 122
ToolResult(tool, arguments, outcome) ==
    IF tool # "" THEN CallObject(tool, arguments, outcome)
    ELSE Outcome(FALSE, EmptyDict, <<>>, "")

\* one iteration of the loop of handle_tool_call, lines 118-123; log is the
\* record of the dispatch: the call, the function that ran, what came of it
HandleOne(tool_call, outcome) ==
    LET r == ToolResult(GlobalsGet(tool_call.name),
                        JsonLoads(tool_call.arguments), outcome)
        content == IF r.raised THEN <<>> ELSE JsonDumps(r.result)
    IN  [raised |-> r.raised,
         results |-> IF r.raised THEN <<>>
                     ELSE <<ToolMsg(content, tool_call.id)>>,
         posts |-> r.posts,
         log |-> <<[id |-> tool_call.id, name |-> tool_call.name,
                    ran |-> r.ran, raised |-> r.raised, content |-> content,
                    posts |-> r.posts]>>]

\* Me.handle_tool_call(tool_calls), lines 115-124; outcomes[i] is what the
\* push endpoint does if call i posts.  An exception ends the loop: the
\* posts made so far stay made, and no results are returned.
RECURSIVE HandleFrom(_, _, _, _)
HandleFrom(tool_calls, outcomes, i, acc) ==
    IF i > Len(tool_calls) THEN acc
    ELSE LET one == HandleOne(tool_calls[i], outcomes[i])
             nxt == [raised |-> one.raised,
                     results |-> acc.results \o one.results,
                     posts |-> acc.posts \o one.posts,
                     log |-> acc.log \o one.log]
         IN  IF one.raised THEN nxt
             ELSE HandleFrom(tool_calls, outcomes, i + 1, nxt)

handle_tool_call(tool_calls, outcomes) ==
    HandleFrom(tool_calls, outcomes, 1,
               [raised |-> FALSE, results |-> <<>>, posts |-> <<>>, log |-> <<>>])

(***************************************************************************)
(* Me.system_prompt and the pieces of Me.chat.                             *)
(***************************************************************************)
\* system_prompt with the bio paragraph left out
system_prompt_NoBio(p) ==
    <<"You are acting as ">> \o p.name
    \o <<". You are answering questions on ">> \o p.name
    \o <<"\n\n## Summary:\n">> \o p.summary \o <<"\n\n">>
    \o <<"With this context, please chat with the user, always staying in character as ">>
    \o p.name \o <<".">>

\* Me.system_prompt(), lines 126-137: the literal pieces of the f-strings
\* around self.name, self.summary and self.bio
system_prompt(p) ==
    <<"You are acting as ">> \o p.name
    \o <<". You are answering questions on ">> \o p.name
    \o <<"'s website, particularly questions related to ">> \o p.name
    \o <<"'s career, background, skills and experience. Your responsibility is to represent ">>
    \o p.name
    \o <<" for interactions on the website as faithfully as possible. You are given a summary of ">>
    \o p.name
    \o <<"'s background and bio profile [...] record it using your record_user_details tool. ">>
    \o <<"\n\n## Summary:\n">> \o p.summary
    \o <<"\n\n## bio Profile:\n">> \o p.bio \o <<"\n\n">>
    \o <<"With this context, please chat with the user, always staying in character as ">>
    \o p.name \o <<".">>

\* line 140: a new list; the caller's history list is not touched
InitialMessages(p, hist, message) ==
    [messages |-> <<Msg("system", system_prompt(p))>> \o hist
                  \o <<Msg("user", message)>>,
     history |-> hist]

\* line 145
RequestsTool(resp) == resp.finish_reason = "tool_calls"

\* the results put before the message that requested them
AppendRound_ResultsFirst(msgs, message, results) ==
    (msgs \o results) \o <<message>>

\* the conversation cut back to the system prompt before the round is added
AppendRound_Trim(msgs, message, results) ==
    <<msgs[1], message>> \o results

\* lines 149-150: messages.append(message); messages.extend(results)
AppendRound(msgs, message, results) == Append(msgs, message) \o results

\* lines 153-155
ReturnValue(resp) ==
    IF resp = NoResponse THEN <<>> ELSE resp.message.content

\* the loop left on finish_reason "stop" only
AfterResponse_StopOnly(resp) ==
    IF resp.finish_reason = "stop" THEN "done" ELSE "awaiting_tool_result"

\* the branch at lines 145-152: where the loop is after a response
AfterResponse(resp) ==
    IF RequestsTool(resp) THEN "awaiting_tool_result" ELSE "done"

\* done set after the tools have run
AfterTools_Done == "done"

\* the end of the tool branch, lines 148-150: back to the top of the loop
AfterTools == "awaiting_model"

(***************************************************************************)
(* router.py.                                                              *)
(***************************************************************************)
\* multiply(a, b), lines 7-14
multiply(a, b) == a * b
\* add(a, b), lines 16-23
add(a, b) == a + b

\* ToolNode([multiply, add]), line 37: one tool message per tool call of the
\* last message, in order
RunTool(tool_call) ==
    ToolMsg(<<ToString(IF tool_call.name = "multiply"
                       THEN multiply(tool_call.arguments.a, tool_call.arguments.b)
                       ELSE add(tool_call.arguments.a, tool_call.arguments.b))>>,
            tool_call.id)
ToolNode(msgs) ==
    LET calls == msgs[Len(msgs)].tool_calls
    IN  [i \in 1..Len(calls) |-> RunTool(calls[i])]

\* the conditional edge always taken to the tools node
tools_condition_Always(msgs) == "tools"

\* tools_condition, lines 41-44: "tools" if the last message carries tool
\* calls, else "__end__"
tools_condition(msgs) ==
    IF Len(msgs[Len(msgs)].tool_calls) > 0 THEN "tools" ELSE "__end__"

\* the tools node wired back to the model node
EdgeFromTools_Loop == "tool_calling_llm"

\* builder.add_edge("tools", END), line 46
EdgeFromTools == "__end__"

(***************************************************************************)
(* The environment's inputs.                                               *)
(***************************************************************************)
\* the persona of the code: self.name (line 97) and the two files' texts
CodePersona ==
    [name |-> <<"Ypatios Chaniotakos">>, summary |-> <<"<summary.txt>">>,
     bio |-> <<"<chaniotakos.pdf>">>]

Chars == {"a", "b"}
Texts == SeqsUpTo(Chars, MaxPersonaLen)
Personas ==
    {p \in [name : Texts, summary : Texts, bio : Texts] :
        Len(p.name) + Len(p.summary) + Len(p.bio) <= MaxPersonaLen}

\* gradio's history: earlier turns of the session
Histories ==
    {<<>>, <<Msg("user", <<"hello">>), AssistantMsg(<<"hi">>, <<>>)>>}
UserMessages == {<<"who are you?">>}

\* names the hosted model may put in a tool call: the two declared tools,
\* two other module globals, and a name that is no global
ToolNames == DeclaredTools \cup {"push", "tools", "lookup_weather"}
ArgumentTexts ==
    {<< <<"email", "a@b.c">> >>, << <<"question", "q">> >>,
     << <<"message", "m">> >>}

\* a response's tool calls, numbered from the first free id
Numbered(calls, first) ==
    [i \in 1..Len(calls) |->
        [id |-> first + i - 1, name |-> calls[i][1], arguments |-> calls[i][2]]]

ToolCallLists(Names, Args, first) ==
    {Numbered(c, first) :
        c \in UNION {[1..k -> Names \X Args] : k \in 1..(MaxCalls + 1 - first)}}

\* chat.completions.create returns: a final answer (finish_reason "stop" or
\* "length"), or a message with tool calls (finish_reason "tool_calls")
Responses(Names, first) ==
    {[finish_reason |-> f, message |-> AssistantMsg(<<"answer">>, <<>>)] :
        f \in {"stop", "length"}}
    \cup {[finish_reason |-> "tool_calls", message |-> AssistantMsg(<<>>, tc)] :
            tc \in ToolCallLists(Names, ArgumentTexts, first)}

Operands == {2, 3}
RouterToolNames == {"multiply", "add"}
RouterArguments == [a : Operands, b : Operands]
\* what llm_with_tools.invoke returns: an AI message with or without tool calls
AiMessages(first) ==
    {AssistantMsg(<<"answer">>, <<>>)}
    \cup {AssistantMsg(<<>>, tc) :
            tc \in ToolCallLists(RouterToolNames, RouterArguments, first)}

(***************************************************************************)
(* Me.chat, lines 139-155, step by step.                                   *)
(***************************************************************************)
\* gradio calls me.chat(message, history): lines 140-142
Chat ==
    /\ script = "me" /\ pc = "idle"
    /\ \E message \in UserMessages, hist \in Histories :
          LET m == InitialMessages(persona, hist, message)
          IN  /\ messages' = m.messages
              /\ history' = m.history
    /\ pc' = "awaiting_model"
    /\ UNCHANGED <<script, persona, response, retval, posts, sent, dispatched,
                   ncalls, nmodel, ntools>>

\* line 144 returns a response; the branch of lines 145-152 is taken
ModelResponds(Names) ==
    /\ script = "me" /\ pc = "awaiting_model"
    /\ \E resp \in Responses(Names, ncalls + 1) :
          /\ response' = resp
          /\ ncalls' = ncalls + Len(resp.message.tool_calls)
          /\ pc' = AfterResponse(resp)
    /\ sent' = Append(sent, messages)
    /\ nmodel' = nmodel + 1
    /\ UNCHANGED <<script, persona, history, messages, retval, posts, dispatched, ntools>>

\* line 144 raises (the SDK gave up on the request)
ModelFails ==
    /\ script = "me" /\ pc = "awaiting_model"
    /\ sent' = Append(sent, messages)
    /\ nmodel' = nmodel + 1
    /\ pc' = "raised"
    /\ UNCHANGED <<script, persona, history, messages, response, retval, posts,
                   dispatched, ncalls, ntools>>

\* lines 146-150: the tools run, then the message and the results are appended;
\* an exception in a tool leaves chat before line 149
HandleTools ==
    /\ script = "me" /\ pc = "awaiting_tool_result"
    /\ \E outcomes \in [1..Len(response.message.tool_calls) -> PostOutcomes] :
          LET r == handle_tool_call(response.message.tool_calls, outcomes)
          IN  /\ posts' = posts \o r.posts
              /\ dispatched' = dispatched \o r.log
              /\ IF r.raised
                 THEN /\ pc' = "raised"
                      /\ UNCHANGED messages
                 ELSE /\ pc' = AfterTools
                      /\ messages' = AppendRound(messages, response.message,
                                                 r.results)
    /\ ntools' = ntools + 1
    /\ UNCHANGED <<script, persona, history, response, retval, sent, ncalls,
                   nmodel>>

\* lines 153-155
Return ==
    /\ script = "me" /\ pc = "done"
    /\ retval' = ReturnValue(response)
    /\ pc' = "returned"
    /\ UNCHANGED <<script, persona, history, messages, response, posts, sent,
                   dispatched, ncalls, nmodel, ntools>>

(***************************************************************************)
(* The router graph, lines 34-48, node by node.                            *)
(***************************************************************************)
\* graph.invoke(input): the edge START -> tool_calling_llm, line 39
RouterStart ==
    /\ script = "router" /\ pc = "START"
    /\ \E message \in UserMessages : messages' = <<Msg("user", message)>>
    /\ pc' = "tool_calling_llm"
    /\ UNCHANGED <<script, persona, history, response, retval, posts, sent,
                   dispatched, ncalls, nmodel, ntools>>

\* the node tool_calling_llm, lines 30-31, and its conditional edge
ToolCallingLlm ==
    /\ script = "router" /\ pc = "tool_calling_llm"
    /\ \E ai \in AiMessages(ncalls + 1) :
          /\ messages' = Append(messages, ai)
          /\ ncalls' = ncalls + Len(ai.tool_calls)
          /\ pc' = tools_condition(Append(messages, ai))
    /\ sent' = Append(sent, messages)
    /\ nmodel' = nmodel + 1
    /\ UNCHANGED <<script, persona, history, response, retval, posts, dispatched, ntools>>

\* the node tools, line 37, and its edge, line 46
Tools ==
    /\ script = "router" /\ pc = "tools"
    /\ messages' = messages \o ToolNode(messages)
    /\ ntools' = ntools + 1
    /\ pc' = EdgeFromTools
    /\ UNCHANGED <<script, persona, history, response, retval, posts, sent,
                   dispatched, ncalls, nmodel>>

(***************************************************************************)
(* Specifications.                                                         *)
(***************************************************************************)
InitWith(Scripts, P) ==
    /\ script \in Scripts
    /\ persona \in P
    /\ pc = IF script = "me" THEN "idle" ELSE "START"
    /\ history = <<>>
    /\ messages = <<>>
    /\ response = NoResponse
    /\ retval = NoValue
    /\ posts = <<>>
    /\ sent = <<>>
    /\ dispatched = <<>>
    /\ ncalls = 0
    /\ nmodel = 0
    /\ ntools = 0

Init == InitWith({"me", "router"}, {CodePersona})

Next ==
    \/ Chat
    \/ ModelResponds(ToolNames)
    \/ ModelFails
    \/ HandleTools
    \/ Return
    \/ RouterStart
    \/ ToolCallingLlm
    \/ Tools

Spec == Init /\ [][Next]_vars

\* the code runs to its return once the loop has ended
FairSpec == Spec /\ WF_vars(Return)

\* every persona, with a hosted model that asks for one tool only
InitPrompt == InitWith({"me"}, Personas)

NextPrompt ==
    \/ Chat
    \/ ModelResponds({"record_unknown_question"})
    \/ ModelFails
    \/ HandleTools
    \/ Return

SpecPrompt == InitPrompt /\ [][NextPrompt]_vars

(***************************************************************************)
(* Notions the properties speak of.                                        *)
(***************************************************************************)
Last(s) == s[Len(s)]
CarriesToolCall(msg) == Len(msg.tool_calls) > 0
ToolMessagesOf(msgs) == {i \in DOMAIN msgs : msgs[i].role = "tool"}
RunEnded == pc \in {"returned", "__end__"}

(***************************************************************************)
(* C1.  The tool-call loop of Me.chat ends on the first response whose     *)
(* finish_reason is not "tool_calls": the loop is left (DONE), the only    *)
(* step after that is the return of that response's content, with no       *)
(* further model call, tool run or post, nothing happens after the return, *)
(* and once the loop is left chat does return.                             *)
(***************************************************************************)
C1_ExitStep ==
    /\ (pc = "awaiting_model" /\ pc' # "raised"
            /\ response'.finish_reason # "tool_calls") => pc' = "done"
    /\ pc = "done" =>
          /\ pc' = "returned"
          /\ retval' = response.message.content
          /\ response.finish_reason # "tool_calls"
          /\ UNCHANGED <<nmodel, ntools, sent, posts, dispatched, messages>>
    /\ pc # "returned"

C1_LoopTerminates ==
    /\ [][script = "me" => C1_ExitStep]_vars
    /\ (pc = "done") ~> (pc = "returned")

C1_Witness ==
    /\ script = "me" /\ pc = "returned" /\ retval = <<"answer">>
    /\ nmodel = 2 /\ ntools = 1

(***************************************************************************)
(* C2.  A tool call whose name is not one of the two declared tools never  *)
(* makes handle_tool_call raise, and its tool message is json.dumps({}).   *)
(***************************************************************************)
C2_UnknownNameGivesEmpty ==
    \A i \in DOMAIN dispatched :
        dispatched[i].name \notin DeclaredTools =>
            /\ ~dispatched[i].raised
            /\ dispatched[i].content = JsonDumps(EmptyDict)

(***************************************************************************)
(* C3.  Dispatch is the fixed map: a declared name runs its same-named     *)
(* function, once; any other name runs nothing and sends nothing.          *)
(***************************************************************************)
FixedMap(name) == IF name \in DeclaredTools THEN name ELSE ""

C3_DispatchIsFixedMap ==
    \A i \in DOMAIN dispatched :
        /\ dispatched[i].ran \in {FixedMap(dispatched[i].name), ""}
        /\ dispatched[i].name \notin DeclaredTools => dispatched[i].posts = <<>>
        /\ (dispatched[i].name \in DeclaredTools /\ ~dispatched[i].raised) =>
              dispatched[i].ran = dispatched[i].name

(***************************************************************************)
(* C4.  Me.chat moves AWAITING_MODEL -> AWAITING_TOOL_RESULT exactly when  *)
(* the response carries a tool call and -> DONE exactly when it does not;  *)
(* from AWAITING_TOOL_RESULT, once every requested tool has run, it moves  *)
(* back to AWAITING_MODEL; DONE is entered from AWAITING_MODEL only; no    *)
(* two model calls are made with the same message sequence.  (A call that  *)
(* raises leaves chat: that is C7's subject.)                              *)
(***************************************************************************)
C4_Step ==
    /\ pc = "awaiting_model" =>
          /\ pc' \in {"awaiting_tool_result", "done", "raised"}
          /\ pc' = "awaiting_tool_result" =>
                response' # response /\ CarriesToolCall(response'.message)
          /\ pc' = "done" =>
                response' # response /\ ~CarriesToolCall(response'.message)
          /\ nmodel' = nmodel + 1
    /\ pc = "awaiting_tool_result" =>
          /\ pc' \in {"awaiting_model", "raised"}
          /\ nmodel' = nmodel
          /\ pc' = "awaiting_model" <=>
                /\ Len(dispatched') =
                       Len(dispatched) + Len(response.message.tool_calls)
                /\ \A i \in DOMAIN dispatched' : ~dispatched'[i].raised
    /\ pc' = "done" => pc = "awaiting_model"
    /\ pc' = "awaiting_tool_result" => pc = "awaiting_model"
    /\ pc' = "awaiting_model" => pc \in {"idle", "awaiting_tool_result"}

NoRepeatedRequest ==
    \A i, j \in DOMAIN sent : i # j => sent[i] # sent[j]

C4_TwoStateLoop ==
    /\ [][script = "me" => C4_Step]_vars
    /\ [](script = "me" => NoRepeatedRequest /\ nmodel = Len(sent))

C4_Witness ==
    /\ script = "me" /\ pc = "done" /\ nmodel = 3 /\ ntools = 2

(***************************************************************************)
(* C5.  As claimed: in both scripts every tool result is followed by       *)
(* another invocation of the model, so that a run that has ended has shown *)
(* every tool result to the model and does not end on a tool result.       *)
(***************************************************************************)
ModelSawEveryToolResult ==
    \A i \in ToolMessagesOf(messages) :
        Len(sent) > 0 /\ i \in DOMAIN Last(sent) /\ Last(sent)[i] = messages[i]

C6_Step ==
    /\ pc = "idle" =>
          /\ history' \in Histories
          /\ \E message \in UserMessages :
                messages' = <<Msg("system", system_prompt(persona))>>
                            \o history' \o <<Msg("user", message)>>
    /\ pc # "idle" =>
          /\ IsPrefix(messages, messages')
          /\ history' = history
          /\ SubSeq(messages', 2, Len(history) + 1) = history

C6_AppendOnly == [][script = "me" => C6_Step]_vars

C6_Witness ==
    /\ script = "me" /\ pc = "returned" /\ history # <<>>
    /\ Len(messages) = Len(history) + 2 + 4

(***************************************************************************)
(* C7.  A failed network call leaves chat by an exception: chat returns    *)
(* nothing, the call is not made again, and a tool whose notification was  *)
(* not delivered never reports {"recorded": "ok"}.                         *)
(***************************************************************************)
C7_FailurePropagates ==
    /\ pc = "raised" => retval = NoValue
    /\ Len(sent) = nmodel
    /\ \A i \in DOMAIN dispatched :
          dispatched[i].name \in DeclaredTools =>
              /\ Len(dispatched[i].posts) <= 1
              /\ (\E k \in DOMAIN dispatched[i].posts :
                     dispatched[i].posts[k].outcome # "delivered")
                 => /\ dispatched[i].raised
                    /\ dispatched[i].content # JsonDumps(RecordedOk)
                    /\ pc = "raised"

(***************************************************************************)
(* C8.  system_prompt contains the name, the summary and the biography,    *)
(* each as an unmodified contiguous run, and every request chat makes      *)
(* starts with a system message holding exactly that string.               *)
(***************************************************************************)
C8_PromptEmbedsPersona ==
    /\ IsSubstring(persona.name, system_prompt(persona))
    /\ IsSubstring(persona.summary, system_prompt(persona))
    /\ IsSubstring(persona.bio, system_prompt(persona))
    /\ \A i \in DOMAIN sent :
          /\ sent[i][1].role = "system"
          /\ sent[i][1].content = system_prompt(persona)
          /\ IsSubstring(persona.name, sent[i][1].content)
          /\ IsSubstring(persona.summary, sent[i][1].content)
          /\ IsSubstring(persona.bio, sent[i][1].content)

C8_Witness ==
    /\ persona.name = <<"a">> /\ persona.summary = <<"b">>
    /\ persona.bio = <<"b">>
    /\ pc = "returned" /\ Len(sent) = 2

(***************************************************************************)
(* C9.  Tool results are paired and ordered with their requests: in every  *)
(* request sent to the model, an assistant message with n tool calls is    *)
(* followed at once by n tool messages carrying the ids of its calls in    *)
(* order, every tool message lies in such a block, and every requested id  *)
(* has exactly one tool message.                                           *)
(***************************************************************************)
WellPaired(msgs) ==
    /\ \A j \in DOMAIN msgs :
          LET calls == msgs[j].tool_calls
          IN  /\ j + Len(calls) <= Len(msgs)
              /\ \A k \in DOMAIN calls :
                    /\ msgs[j + k].role = "tool"
                    /\ msgs[j + k].tool_call_id = calls[k].id
                    /\ Cardinality({i \in ToolMessagesOf(msgs) :
                           msgs[i].tool_call_id = calls[k].id}) = 1
    /\ \A i \in ToolMessagesOf(msgs) :
          \E j \in 1..(i - 1) :
              /\ msgs[j].role = "assistant"
              /\ i - j \in DOMAIN msgs[j].tool_calls
              /\ msgs[j].tool_calls[i - j].id = msgs[i].tool_call_id

C9_ResultsPaired ==
    script = "me" =>
        /\ \A i \in DOMAIN sent : WellPaired(sent[i])
        /\ pc \in {"awaiting_model", "done", "returned"} => WellPaired(messages)

C9_Witness ==
    /\ script = "me" /\ pc = "returned"
    /\ \E j \in DOMAIN messages : Len(messages[j].tool_calls) = 2

(***************************************************************************)
(* C10.  A run of the router graph invokes the model node exactly once and *)
(* the tools node at most once: the tools node runs iff the model's        *)
(* message carries a tool call, the run ends right after it, otherwise     *)
(* right after the model node; the run does not stop before its end.       *)
(***************************************************************************)
C10_RouterRunsOnce ==
    script = "router" =>
        /\ nmodel <= 1 /\ ntools <= 1
        /\ pc = "tool_calling_llm" => nmodel = 0 /\ ntools = 0
        /\ pc = "tools" =>
              nmodel = 1 /\ ntools = 0 /\ CarriesToolCall(Last(messages))
        /\ pc = "__end__" =>
              /\ nmodel = 1
              /\ ntools = 1 <=> CarriesToolCall(messages[2])
              /\ Len(messages) = 2 + Len(messages[2].tool_calls)
        /\ pc # "__end__" => ENABLED Next

C10_Witness ==
    /\ script = "router" /\ pc = "__end__" /\ ntools = 1
    /\ Len(messages) = 4

====
